---- MODULE Spec2Model ----
(***************************************************************************)
(* Model of the two pieces of the repository:                              *)
(*   - useSelectedTags, the tag-filter parser of the site hooks            *)
(*   - node-scripts/update-yt.mjs, the YouTube description updater         *)
(* JavaScript strings that the code takes apart (split, startsWith,        *)
(* endsWith, replace) are sequences of one-character strings.  Strings     *)
(* that are only compared (track slugs, titles, descriptions) are TLA+     *)
(* strings.                                                                *)
(***************************************************************************)
EXTENDS Integers, Sequences, FiniteSets, TLC

VARIABLES
    \* ---- useSelectedTags
    pathname,       \* the argument
    tagsResult,     \* Pending, or the value returned / the error raised
    \* ---- update-yt.mjs
    pc,             \* position of main()
    secretFile,     \* google-credentials/client_secret.json exists
    tokenFile,      \* google-credentials/credentials.json: "absent", "valid", "corrupt"
    tokenAtStart,   \* tokenFile when the run started (history)
    credentials,    \* oauth2Client.credentials
    dir,            \* _descriptions: Missing, or the set of its file names
    metadata,       \* parsed _descriptions/metadata.json: [videos, tracks]
    videos,         \* main's `videos`
    tracks,         \* main's `tracks`
    track,          \* main's `track`
    video,          \* main's `video`
    newDescription, \* main's `newDescription`
    listRes,        \* response of service.videos.list
    updateRes,      \* outcome of service.videos.update: "none", "ok", "error"
    log,            \* console output, in order
    prompts,        \* interactive prompts shown, in order
    calls           \* remote API calls issued, in order

tagVars == <<pathname, tagsResult>>
ytVars == <<pc, secretFile, tokenFile, tokenAtStart, credentials, dir, metadata,
            videos, tracks, track, video, newDescription, listRes, updateRes, log,
            prompts, calls>>
vars == <<tagVars, ytVars>>

(***************************************************************************)
(* JavaScript string and array primitives                                  *)
(***************************************************************************)

\* The JavaScript value `undefined` where a string is expected
Undefined == <<"undefined">>

\* s.slice(from) on a sequence, `from` a 0-based index
SliceFrom(s, from) == SubSeq(s, from + 1, Len(s))

\* s.startsWith(p)
StartsWith(s, p) == Len(s) >= Len(p) /\ SubSeq(s, 1, Len(p)) = p

\* s.endsWith(p)
EndsWith(s, p) == Len(s) >= Len(p) /\ SubSeq(s, Len(s) - Len(p) + 1, Len(s)) = p

\* s.includes(c), c one character
Includes(s, c) == \E i \in 1..Len(s) : s[i] = c

RECURSIVE SplitAcc(_, _, _)
SplitAcc(s, c, cur) ==
    IF s = <<>> THEN <<cur>>
    ELSE IF Head(s) = c THEN <<cur>> \o SplitAcc(Tail(s), c, <<>>)
    ELSE SplitAcc(Tail(s), c, Append(cur, Head(s)))

\* s.split(c), c one character: always at least one piece
Split(s, c) == SplitAcc(s, c, <<>>)

RECURSIVE Join(_, _)
\* parts.join(c)
Join(parts, c) ==
    IF parts = <<>> THEN <<>>
    ELSE IF Len(parts) = 1 THEN parts[1]
    ELSE parts[1] \o <<c>> \o Join(Tail(parts), c)

RECURSIVE ReplaceFirst(_, _, _)
\* s.replace(pat, rep) with a string pattern: the first occurrence only
ReplaceFirst(s, pat, rep) ==
    IF Len(s) < Len(pat) THEN s
    ELSE IF StartsWith(s, pat) THEN rep \o SliceFrom(s, Len(pat))
    ELSE <<Head(s)>> \o ReplaceFirst(Tail(s), pat, rep)

\* arr[i], i a 0-based index: undefined past the end
At(arr, i) == IF i + 1 <= Len(arr) THEN arr[i + 1] ELSE Undefined

(***************************************************************************)
(* useSelectedTags                                                         *)
(***************************************************************************)

\* What a call has produced so far: nothing yet, a returned value, a raised error
Pending == [kind |-> "pending", value |-> <<>>]
Threw == [kind |-> "TypeError", value |-> <<>>]
Returned(v) == [kind |-> "returned", value |-> v]

\* 'lang:all+topic:all'
DefaultFilter == <<"l","a","n","g",":","a","l","l","+","t","o","p","i","c",":","a","l","l">>

\* index of the path segment that holds the filter token
FilterSegmentNext == 2 + 1
FilterSegment == 2

\* pathname.replace('%20', ' ').split('/')
SplittedString(p) == Split(ReplaceFirst(p, <<"%","2","0">>, <<" ">>), "/")

\* splittedString[2] && splittedString[2].includes('+') ? splittedString[2] : default
FilterString(p) ==
    LET seg == At(SplittedString(p), FilterSegment)
    IN IF seg # Undefined /\ seg # <<>> /\ Includes(seg, "+") THEN seg ELSE DefaultFilter

\* part.split(':')[1]
TagValueFirstPiece(part) == At(Split(part, ":"), 0)
TagValue(part) == At(Split(part, ":"), 1)

\* The whole function: the pair returned, or Threw when .split is called on undefined
UseSelectedTags(p) ==
    LET parts == Split(FilterString(p), "+")
        languageFilter == At(parts, 0)
        topicFilter == At(parts, 1)
    IN IF languageFilter = Undefined \/ topicFilter = Undefined THEN Threw
       ELSE Returned(<<TagValue(languageFilter), TagValue(topicFilter)>>)

\* ---- inputs
MaxPathLen == 5
PathAlphabet == {"/", "+", ":", "a"}

RECURSIVE StringsUpTo(_)
StringsUpTo(n) ==
    IF n = 0 THEN {<<>>}
    ELSE LET shorter == StringsUpTo(n - 1)
         IN shorter \cup {Append(s, c) : s \in {t \in shorter : Len(t) = n - 1}, c \in PathAlphabet}

\* "/x/y/lang:en+topic:math"
PathXY == <<"/","x","/","y","/","l","a","n","g",":","e","n","+","t","o","p","i","c",":","m","a","t","h">>
\* "/x/lang:en+topic:math"
PathX == <<"/","x","/","l","a","n","g",":","e","n","+","t","o","p","i","c",":","m","a","t","h">>
\* "/x/y"
PathNoFilter == <<"/","x","/","y">>
\* "/x/en+math"
PathNoPrefix == <<"/","x","/","e","n","+","m","a","t","h">>
\* "/x/lang:a%20b+topic:c%20d"
PathEscaped == <<"/","x","/","l","a","n","g",":","a","%","2","0","b","+","t","o","p","i","c",":","c","%","2","0","d">>

Pathnames == StringsUpTo(MaxPathLen) \cup {PathXY, PathX, PathNoFilter, PathNoPrefix, PathEscaped}

(***************************************************************************)
(* update-yt.mjs: data                                                     *)
(***************************************************************************)

Txt == <<".","t","x","t">>
MetadataJson == <<"m","e","t","a","d","a","t","a",".","j","s","o","n">>
\* 'challenges', the prefix of a challenge's canonicalURL and the synthetic track's slug
Challenges == <<"c","h","a","l","l","e","n","g","e","s">>

\* track slugs of metadata.json
TrackT1 == <<"t","1">>
TrackT2 == <<"t","2">>

\* canonicalURL values: of a track video, of a challenge, of a page that only
\* mentions challenges
UrlTrack == <<"t","r","a","c","k","s","/","t","1">>
UrlChallenge == Challenges \o <<"/","1">>
UrlOther == <<"a","/">> \o Challenges

VideoRecord(i, s, t, u) ==
    [videoId |-> i, slug |-> s, title |-> "video", canonicalTrack |-> t, canonicalURL |-> u]

\* the records metadata.json may list: track videos, challenges, a video that is
\* both, a video that is neither; two records share an id and differ in slug
VideoRecords ==
    { VideoRecord(<<"v","1">>, <<"a">>, TrackT1, UrlTrack),
      VideoRecord(<<"v","1">>, <<"b">>, Undefined, UrlChallenge),
      VideoRecord(<<"v","1">>, <<"a">>, Undefined, UrlOther),
      VideoRecord(<<"v","1">>, <<"b">>, TrackT2, UrlChallenge),
      VideoRecord(<<"v","_","2">>, <<"a">>, Undefined, UrlChallenge),
      VideoRecord(<<"v","_","2">>, <<"a">>, TrackT2, UrlChallenge),
      VideoRecord(<<"v","_","2">>, <<"b">>, TrackT1, UrlTrack),
      VideoRecord(<<"v","_","2">>, <<"a">>, Undefined, UrlOther) }

\* `_descriptions/${video.slug}_${video.videoId}.txt`
DescFileName(v) == v.slug \o <<"_">> \o v.videoId \o Txt

\* the files _descriptions may hold
FileNames ==
    { <<"a","_","v","1">> \o Txt, <<"b","_","v","1">> \o Txt,
      <<"a","_","v","_","2">> \o Txt, MetadataJson }

MaxVideos == 2

RECURSIVE SeqsUpTo(_, _)
SeqsUpTo(S, n) ==
    IF n = 0 THEN {<<>>}
    ELSE LET shorter == SeqsUpTo(S, n - 1)
         IN shorter \cup {Append(q, x) : q \in {t \in shorter : Len(t) = n - 1}, x \in S}

MetaTrack(slug) == [slug |-> slug, title |-> "track"]
TrackLists ==
    { <<MetaTrack(TrackT1), MetaTrack(TrackT2)>>,
      <<MetaTrack(TrackT2), MetaTrack(Challenges)>> }

EmptyMetadata == [videos |-> <<>>, tracks |-> <<>>]
Metadatas == [videos : SeqsUpTo(VideoRecords, MaxVideos), tracks : TrackLists]

Dirs == {[exists |-> FALSE, files |-> {}]} \cup [exists : {TRUE}, files : SUBSET FileNames]

Descriptions == {"d1", "d2"}
NoVideo == [videoId |-> <<>>, slug |-> <<>>, title |-> "", canonicalTrack |-> <<>>,
            canonicalURL |-> <<>>]
NoTrack == [slug |-> <<>>, title |-> "", videos |-> <<>>]
NoSnippet == [title |-> "", description |-> "", categoryId |-> ""]
Snippets == [title : {"remote title"}, description : Descriptions, categoryId : {"28"}]
NoListRes == [kind |-> "none", items |-> <<>>]

(***************************************************************************)
(* update-yt.mjs: main's computations                                      *)
(***************************************************************************)

\* f.split('.')[0].split('_').slice(1).join('_')
VideoIdOfFile(f) == Join(SliceFrom(Split(At(Split(f, "."), 0), "_"), 1), "_")

\* readdirSync('_descriptions').filter((f) => !f.endsWith('json')).map(...)
VideoIds(files) ==
    { VideoIdOfFile(f) : f \in {g \in files : ~EndsWith(g, <<"j","s","o","n">>)} }

\* metadata.videos.filter((x) => videoIds.includes(x.videoId))
CandidateVideos(meta, ids) == SelectSeq(meta.videos, LAMBDA x : x.videoId \in ids)

\* videos.filter((video) => video.canonicalTrack === track.slug)
TrackVideos(vids, slug) == SelectSeq(vids, LAMBDA v : v.canonicalTrack = slug)

\* .filter((track) => track.videos.length > 0)
KeepTrackAlways(t) == TRUE
KeepTrack(t) == Len(t.videos) > 0

\* metadata.tracks.map(...).filter(...)
MetadataTracks(meta, vids) ==
    SelectSeq([i \in 1..Len(meta.tracks) |->
                  [slug |-> meta.tracks[i].slug, title |-> meta.tracks[i].title,
                   videos |-> TrackVideos(vids, meta.tracks[i].slug)]],
              KeepTrack)

\* video.canonicalURL.startsWith('challenges')
IsChallenge(v) == StartsWith(v.canonicalURL, Challenges)

\* videos.filter((video) => video.canonicalURL.startsWith('challenges'))
ChallengeVideos(vids) == SelectSeq(vids, IsChallenge)

\* the tracks offered: the metadata tracks that have videos, then the synthetic one
BuildTracks(meta, vids) ==
    LET challengeVideos == ChallengeVideos(vids)
    IN IF Len(challengeVideos) > 0
       THEN Append(MetadataTracks(meta, vids),
                   [slug |-> Challenges, title |-> "Coding Challenges",
                    videos |-> challengeVideos])
       ELSE MetadataTracks(meta, vids)

\* the index of the first element of a set of indices, 0 when it is empty
FirstOf(hits) == IF hits = {} THEN 0 ELSE CHOOSE i \in hits : \A j \in hits : i <= j

\* tracks.find((x) => x.slug === trackSlug): its index, 0 for undefined
FindTrack(arr, trackSlug) == FirstOf({i \in 1..Len(arr) : arr[i].slug = trackSlug})

\* track.videos.find((video) => video.videoId === videoId): its index, 0 for undefined
FindVideo(arr, videoId) == FirstOf({i \in 1..Len(arr) : arr[i].videoId = videoId})

(***************************************************************************)
(* update-yt.mjs: updateYTDesc's computations                              *)
(***************************************************************************)

\* oldDescription === newDescription
UpToDateNever(old, new) == FALSE
UpToDate(old, new) == old = new

\* the requestBody of service.videos.update
UpdateRequestOwnTitle(id, snippet, new) ==
    [op |-> "update", id |-> id,
     snippet |-> [title |-> "", description |-> new, categoryId |-> snippet.categoryId]]
UpdateRequest(id, snippet, new) ==
    [op |-> "update", id |-> id,
     snippet |-> [title |-> snippet.title, description |-> new,
                  categoryId |-> snippet.categoryId]]

ListRequest(id) == [op |-> "list", id |-> id, snippet |-> NoSnippet]

(***************************************************************************)
(* update-yt.mjs: the run                                                  *)
(***************************************************************************)

YTInit ==
    /\ pc = "start"
    /\ secretFile \in BOOLEAN
    /\ tokenFile \in {"absent", "valid", "corrupt"}
    /\ tokenAtStart = tokenFile
    /\ credentials = "none"
    /\ dir \in Dirs
    /\ metadata \in IF MetadataJson \in dir.files THEN Metadatas ELSE {EmptyMetadata}
    /\ videos = <<>>
    /\ tracks = <<>>
    /\ track = NoTrack
    /\ video = NoVideo
    /\ newDescription = ""
    /\ listRes = NoListRes
    /\ updateRes = "none"
    /\ log = <<>>
    /\ prompts = <<>>
    /\ calls = <<>>

\* main, lines 153-162: read the client secret, call authorize
LoadClientSecret ==
    /\ pc = "start"
    /\ IF secretFile
       THEN pc' = "authorize" /\ log' = log
       ELSE pc' = "done" /\ log' = Append(log, "Error loading client secret file")
    /\ UNCHANGED tagVars
    /\ UNCHANGED updateRes
    /\ UNCHANGED <<secretFile, tokenFile, tokenAtStart, credentials, dir, metadata,
                   videos, tracks, track, video, newDescription, listRes, prompts, calls>>

\* authorize, lines 52-59, and getNewToken up to rl.question, lines 68-79
Authorize ==
    /\ pc = "authorize"
    /\ IF tokenFile = "valid"
       THEN /\ credentials' = "stored token"
            /\ pc' = "authorized"
            /\ UNCHANGED <<log, prompts>>
       ELSE \* readFile or JSON.parse threw: getNewToken
            /\ credentials' = credentials
            /\ log' = Append(log, "Authorize this app by visiting this url")
            /\ prompts' = Append(prompts, "code")
            /\ pc' = "question"
    /\ UNCHANGED tagVars
    /\ UNCHANGED updateRes
    /\ UNCHANGED <<secretFile, tokenFile, tokenAtStart, dir, metadata, videos, tracks,
                   track, video, newDescription, listRes, calls>>

\* getNewToken, lines 79-81: the user enters a code, the exchange is requested
EnterCode ==
    /\ pc = "question"
    /\ pc' = "getToken"
    /\ UNCHANGED tagVars
    /\ UNCHANGED updateRes
    /\ UNCHANGED <<secretFile, tokenFile, tokenAtStart, credentials, dir, metadata,
                   videos, tracks, track, video, newDescription, listRes, log, prompts,
                   calls>>

\* getNewToken, lines 82-85: what the callback does with an exchange error
ExchangeErrorIgnored ==
    /\ log' = Append(log, "Error while trying to retrieve access token")
    /\ credentials' = "new token"
    /\ pc' = "writeFile"
ExchangeError ==
    /\ log' = Append(log, "Error while trying to retrieve access token")
    /\ credentials' = credentials
    /\ pc' = "rejected"

\* getNewToken, lines 81-88, and storeToken's mkdirSync, lines 94-100
GetTokenCallback ==
    /\ pc = "getToken"
    /\ \E outcome \in {"error", "token", "token, mkdir fails"} :
          CASE outcome = "error" -> ExchangeError
            [] outcome = "token" ->
                  /\ credentials' = "new token"
                  /\ pc' = "writeFile"
                  /\ log' = log
            [] OTHER -> \* mkdirSync throws other than EEXIST, inside the callback
                  /\ credentials' = "new token"
                  /\ pc' = "crashed"
                  /\ log' = log
    /\ UNCHANGED tagVars
    /\ UNCHANGED updateRes
    /\ UNCHANGED <<secretFile, tokenFile, tokenAtStart, dir, metadata, videos, tracks,
                   track, video, newDescription, listRes, prompts, calls>>

\* storeToken's writeFile callback, lines 101-105
StoreTokenSkipsWrite ==
    /\ pc = "writeFile"
    /\ pc' = "authorized"
    /\ tokenFile' = tokenFile
    /\ log' = Append(log, "Token stored")
    /\ UNCHANGED tagVars
    /\ UNCHANGED updateRes
    /\ UNCHANGED <<secretFile, tokenAtStart, credentials, dir, metadata, videos, tracks,
                   track, video, newDescription, listRes, prompts, calls>>
StoreToken ==
    /\ pc = "writeFile"
    /\ \E ok \in BOOLEAN :
          IF ok
          THEN /\ tokenFile' = "valid"
               /\ log' = Append(log, "Token stored")
               /\ pc' = "authorized"
          ELSE /\ tokenFile' = tokenFile
               /\ log' = log
               /\ pc' = "crashed"
    /\ UNCHANGED tagVars
    /\ UNCHANGED updateRes
    /\ UNCHANGED <<secretFile, tokenAtStart, credentials, dir, metadata, videos, tracks,
                   track, video, newDescription, listRes, prompts, calls>>

\* main, lines 169-217: discover the candidates, build the tracks, ask for the track
Discover ==
    /\ pc = "authorized"
    /\ IF ~dir.exists \/ Cardinality(dir.files) = 0
       THEN /\ log' = Append(log, "No generated descriptions available")
            /\ pc' = "done"
            /\ UNCHANGED <<videos, tracks, prompts>>
       ELSE IF MetadataJson \notin dir.files
       THEN \* readFileSync('_descriptions/metadata.json') throws
            /\ pc' = "rejected"
            /\ UNCHANGED <<videos, tracks, prompts, log>>
       ELSE /\ videos' = CandidateVideos(metadata, VideoIds(dir.files))
            /\ tracks' = BuildTracks(metadata, videos')
            /\ prompts' = Append(prompts, "track")
            /\ pc' = "trackPrompt"
            /\ log' = log
    /\ UNCHANGED tagVars
    /\ UNCHANGED updateRes
    /\ UNCHANGED <<secretFile, tokenFile, tokenAtStart, credentials, dir, metadata,
                   track, video, newDescription, listRes, calls>>

\* main, lines 217-229: the track is chosen, ask for the video
ChooseTrack ==
    /\ pc = "trackPrompt"
    /\ IF tracks = <<>>
       THEN \* no choice to return: tracks.find gives undefined, track.videos throws
            /\ pc' = "rejected"
            /\ UNCHANGED <<track, prompts>>
       ELSE \E c \in 1..Len(tracks) :
               LET trackSlug == tracks[c].slug
               IN /\ track' = tracks[FindTrack(tracks, trackSlug)]
                  /\ prompts' = Append(prompts, "video")
                  /\ pc' = "videoPrompt"
    /\ UNCHANGED tagVars
    /\ UNCHANGED updateRes
    /\ UNCHANGED <<secretFile, tokenFile, tokenAtStart, credentials, dir, metadata,
                   videos, tracks, video, newDescription, listRes, log, calls>>

\* main, lines 229-236: the video is chosen
ChooseVideo ==
    /\ pc = "videoPrompt"
    /\ \E c \in 1..Len(track.videos) :
          LET videoId == track.videos[c].videoId
          IN video' = track.videos[FindVideo(track.videos, videoId)]
    /\ log' = Append(log, "Updating description for video...")
    /\ pc' = "readDescription"
    /\ UNCHANGED tagVars
    /\ UNCHANGED updateRes
    /\ UNCHANGED <<secretFile, tokenFile, tokenAtStart, credentials, dir, metadata,
                   videos, tracks, track, newDescription, listRes, prompts, calls>>

\* main, lines 238-243, and updateYTDesc up to the list call, lines 119-123
ReadDescription ==
    /\ pc = "readDescription"
    /\ IF DescFileName(video) \in dir.files
       THEN /\ newDescription' \in Descriptions
            /\ calls' = Append(calls, ListRequest(video.videoId))
            /\ pc' = "list"
       ELSE \* readFileSync throws ENOENT
            /\ pc' = "rejected"
            /\ UNCHANGED <<newDescription, calls>>
    /\ UNCHANGED tagVars
    /\ UNCHANGED updateRes
    /\ UNCHANGED <<secretFile, tokenFile, tokenAtStart, credentials, dir, metadata,
                   videos, tracks, track, video, listRes, log, prompts>>

\* updateYTDesc, lines 146-148: the catch
CatchRethrows ==
    /\ pc' = "rejected"
    /\ log' = log
Catch ==
    /\ pc' = "done"
    /\ log' = Append(log, "The API returned an error")

\* updateYTDesc, lines 124-143: the list call has answered
ListAnswered ==
    /\ pc = "list"
    /\ \E res \in {[kind |-> "error", items |-> <<>>]}
                    \cup [kind : {"ok"}, items : SeqsUpTo(Snippets, 1)] :
          /\ listRes' = res
          /\ IF res.kind = "error" \/ res.items = <<>>
             THEN \* the call rejected, or video is undefined and video.snippet throws
                  Catch /\ calls' = calls
             ELSE IF UpToDate(res.items[1].description, newDescription)
             THEN /\ log' = Append(log, "Description is already up to date.")
                  /\ pc' = "done"
                  /\ calls' = calls
             ELSE /\ calls' = Append(calls, UpdateRequest(video.videoId, res.items[1],
                                                          newDescription))
                  /\ pc' = "update"
                  /\ log' = log
    /\ UNCHANGED tagVars
    /\ UNCHANGED updateRes
    /\ UNCHANGED <<secretFile, tokenFile, tokenAtStart, credentials, dir, metadata,
                   videos, tracks, track, video, newDescription, prompts>>

\* updateYTDesc, lines 143-148: the update call has answered
UpdateAnswered ==
    /\ pc = "update"
    /\ \E ok \in BOOLEAN :
          IF ok
          THEN /\ updateRes' = "ok"
               /\ pc' = "done"
               /\ log' = Append(log, "Updated video description.")
          ELSE /\ updateRes' = "error"
               /\ Catch
    /\ UNCHANGED tagVars
    /\ UNCHANGED <<secretFile, tokenFile, tokenAtStart, credentials, dir, metadata,
                   videos, tracks, track, video, newDescription, listRes, prompts, calls>>

YTNext ==
    \/ LoadClientSecret
    \/ Authorize
    \/ EnterCode
    \/ GetTokenCallback
    \/ StoreToken
    \/ Discover
    \/ ChooseTrack
    \/ ChooseVideo
    \/ ReadDescription
    \/ ListAnswered
    \/ UpdateAnswered

Init == YTInit /\ pathname = <<>> /\ tagsResult = Pending
Next == YTNext
Spec == Init /\ [][Next]_vars

YTIdle ==
    /\ pc = "idle" /\ secretFile = FALSE /\ tokenFile = "absent" /\ tokenAtStart = "absent"
    /\ credentials = "none" /\ dir = [exists |-> FALSE, files |-> {}]
    /\ metadata = EmptyMetadata /\ videos = <<>> /\ tracks = <<>> /\ track = NoTrack
    /\ video = NoVideo /\ newDescription = "" /\ listRes = NoListRes /\ updateRes = "none"
    /\ log = <<>>
    /\ prompts = <<>> /\ calls = <<>>

TagsInit ==
    /\ pathname \in Pathnames
    /\ tagsResult = Pending
    /\ YTIdle

\* one call of useSelectedTags(pathname)
CallUseSelectedTags ==
    /\ tagsResult = Pending
    /\ tagsResult' = UseSelectedTags(pathname)
    /\ UNCHANGED pathname
    /\ UNCHANGED ytVars

TagsNext == CallUseSelectedTags
SpecTags == TagsInit /\ [][TagsNext]_vars

(***************************************************************************)
(* Properties of useSelectedTags, under SpecTags                           *)
(***************************************************************************)

StrEn == <<"e","n">>
StrMath == <<"m","a","t","h">>
StrAll == <<"a","l","l">>
LangPrefix == <<"l","a","n","g",":">>
TopicPrefix == <<"t","o","p","i","c",":">>

\* the segment at index 2 of the split path holds a '+' but its two parts do not
\* start with lang: and topic:
MalformedFilter(p) ==
    LET pieces == Split(ReplaceFirst(p, <<"%","2","0">>, <<" ">>), "/")
    IN /\ Len(pieces) >= 3
       /\ Includes(pieces[3], "+")
       /\ LET parts == Split(pieces[3], "+")
          IN ~(StartsWith(parts[1], LangPrefix) /\ StartsWith(parts[2], TopicPrefix))

\* v is what stands between the first ':' of part and its next ':' (or its end);
\* undefined when part holds no ':'
IsColonField(part, v) ==
    IF ~Includes(part, ":") THEN v = Undefined
    ELSE \E i \in 1..Len(part) :
            /\ part[i] = ":"
            /\ \A j \in 1..(i - 1) : part[j] # ":"
            /\ LET rest == SubSeq(part, i + 1, Len(part))
               IN \E n \in 0..Len(rest) :
                     /\ v = SubSeq(rest, 1, n)
                     /\ ~Includes(v, ":")
                     /\ (n = Len(rest) \/ rest[n + 1] = ":")

\* C9, as stated: useSelectedTags("/x/y/lang:en+topic:math") returns ("en", "math")
C9_XYReturnsEnMath ==
    (pathname = PathXY /\ tagsResult # Pending) => tagsResult = Returned(<<StrEn, StrMath>>)

\* C9, amended: useSelectedTags("/x/y/lang:en+topic:math") returns ("all", "all"), the
\* segment at index 2 being "y"; with the token at index 2, as in
\* "/x/lang:en+topic:math", it returns ("en", "math")
C9_TokenAtSegmentTwo ==
    /\ (pathname = PathXY /\ tagsResult # Pending)
          => tagsResult = Returned(<<StrAll, StrAll>>)
    /\ (pathname = PathX /\ tagsResult # Pending)
          => tagsResult = Returned(<<StrEn, StrMath>>)

C9_Witness == pathname = PathXY /\ tagsResult.kind = "returned"

\* C10, as stated: a segment at index 2 that holds '+' but lacks the lang: / topic:
\* prefixes makes useSelectedTags raise an error
C10_MalformedRaises ==
    (MalformedFilter(pathname) /\ tagsResult # Pending) => tagsResult.kind = "TypeError"

\* C10, amended: on such a segment useSelectedTags raises nothing and returns a pair;
\* each component is what follows the first ':' of its part up to the next ':', and
\* undefined when the part holds no ':'
C10_MalformedReturnsFields ==
    (MalformedFilter(pathname) /\ tagsResult # Pending) =>
        LET parts == Split(Split(ReplaceFirst(pathname, <<"%","2","0">>, <<" ">>), "/")[3], "+")
        IN /\ tagsResult.kind = "returned"
           /\ Len(tagsResult.value) = 2
           /\ IsColonField(parts[1], tagsResult.value[1])
           /\ IsColonField(parts[2], tagsResult.value[2])

C10_Witness ==
    /\ pathname = PathNoPrefix
    /\ MalformedFilter(pathname)
    /\ tagsResult = Returned(<<Undefined, Undefined>>)

(***************************************************************************)
(* Properties of update-yt.mjs, under Spec                                 *)
(***************************************************************************)

InLog(msg) == \E i \in 1..Len(log) : log[i] = msg
Prompted(what) == \E i \in 1..Len(prompts) : prompts[i] = what
UpdateCalls == SelectSeq(calls, LAMBDA c : c.op = "update")
ListCalls == SelectSeq(calls, LAMBDA c : c.op = "list")
LastLog == IF log = <<>> THEN "" ELSE log[Len(log)]

\* the list call answered with a video
Listed == listRes.kind = "ok" /\ listRes.items # <<>>

\* the code exchange answered with an error
ExchangeFailed == InLog("Error while trying to retrieve access token")

\* authorize has returned the client to main
AuthorizeReturned ==
    \/ pc \in {"authorized", "trackPrompt", "videoPrompt", "readDescription", "list", "update"}
    \/ pc = "done" /\ secretFile
    \/ pc = "rejected" /\ ~ExchangeFailed

\* C1: when the listed description equals the new one, the run reports "already up
\* to date" and issues no update call
C1_UpToDateIssuesNoUpdate ==
    (Listed /\ listRes.items[1].description = newDescription) =>
        /\ pc = "done"
        /\ LastLog = "Description is already up to date."
        /\ UpdateCalls = <<>>
        /\ updateRes = "none"

C1_Witness ==
    /\ Listed
    /\ listRes.items[1].description = newDescription
    /\ pc = "done"

\* C2: when the listed description differs from the new one, exactly one update call
\* is issued, for the same video id, carrying the new description and the listed
\* title and categoryId
C2_OneUpdatePreservingFields ==
    (Listed /\ listRes.items[1].description # newDescription) =>
        /\ Len(UpdateCalls) = 1
        /\ calls = ListCalls \o UpdateCalls
        /\ UpdateCalls[1].id = video.videoId
        /\ UpdateCalls[1].id = ListCalls[1].id
        /\ UpdateCalls[1].snippet.description = newDescription
        /\ UpdateCalls[1].snippet.title = listRes.items[1].title
        /\ UpdateCalls[1].snippet.categoryId = listRes.items[1].categoryId

C2_Witness ==
    /\ Listed
    /\ listRes.items[1].description # newDescription
    /\ updateRes = "ok"
    /\ LastLog = "Updated video description."

\* C3: every video offered in the video prompt has its description file
\* <slug>_<videoId>.txt in _descriptions
C3_OfferedVideosHaveFile ==
    pc = "videoPrompt" =>
        \A i \in 1..Len(track.videos) : DescFileName(track.videos[i]) \in dir.files

\* C4: with a stored token, it is loaded and nothing interactive and no write
\* happens; without one, authorize returns only after the code exchange and with
\* the new token written to the token file
C4_StoredTokenOrExchange ==
    /\ tokenAtStart = "valid" =>
          /\ tokenFile = "valid"
          /\ ~Prompted("code")
          /\ ~InLog("Authorize this app by visiting this url")
          /\ ~InLog("Token stored")
          /\ pc \notin {"question", "getToken", "writeFile", "crashed"}
          /\ AuthorizeReturned => credentials = "stored token"
    /\ (tokenAtStart = "absent" /\ AuthorizeReturned) =>
          /\ InLog("Authorize this app by visiting this url")
          /\ Prompted("code")
          /\ credentials = "new token"
          /\ tokenFile = "valid"
          /\ InLog("Token stored")

C4_Witness ==
    /\ tokenAtStart = "absent"
    /\ pc = "authorized"
    /\ tokenFile = "valid"

\* <slug>_<videoId>.txt files of _descriptions
GeneratedFiles == {f \in dir.files : EndsWith(f, Txt)}

\* C5: with no generated description file in _descriptions, the run prints the
\* 'No generated descriptions available' message and stops before any prompt for
\* a track or a video and before any remote call
C5_NoDescriptionsStops ==
    (GeneratedFiles = {} /\ AuthorizeReturned /\ pc # "authorized") =>
        /\ InLog("No generated descriptions available")
        /\ ~Prompted("track")
        /\ ~Prompted("video")
        /\ calls = <<>>

TracksBuilt == pc \in {"trackPrompt", "videoPrompt", "readDescription", "list", "update"}

\* C6: a metadata track is offered exactly when a candidate video has its slug as
\* canonicalTrack, with exactly those videos; the Challenges track is offered
\* exactly when a candidate's canonicalURL starts with "challenges", with exactly
\* those videos; no offered track is empty
C6_TrackIndex ==
    TracksBuilt =>
        LET InTrack(slug) == SelectSeq(videos, LAMBDA v : v.canonicalTrack = slug)
            challenge == SelectSeq(videos, LAMBDA v :
                            Len(v.canonicalURL) >= Len(Challenges)
                            /\ SubSeq(v.canonicalURL, 1, Len(Challenges)) = Challenges)
            wanted == SelectSeq(metadata.tracks, LAMBDA m :
                         \E i \in 1..Len(videos) : videos[i].canonicalTrack = m.slug)
            nMeta == IF challenge = <<>> THEN Len(tracks) ELSE Len(tracks) - 1
        IN /\ nMeta = Len(wanted)
           /\ \A k \in 1..Len(wanted) :
                 /\ tracks[k].slug = wanted[k].slug
                 /\ tracks[k].title = wanted[k].title
                 /\ tracks[k].videos = InTrack(wanted[k].slug)
           /\ challenge # <<>> =>
                 tracks[Len(tracks)] =
                    [slug |-> Challenges, title |-> "Coding Challenges", videos |-> challenge]
           /\ \A k \in 1..Len(tracks) : tracks[k].videos # <<>>

C6_Witness ==
    /\ pc = "trackPrompt"
    /\ Len(metadata.tracks) = 2
    /\ Len(tracks) = 2
    /\ tracks[2].slug = Challenges
    /\ tracks[1].slug = TrackT2

\* C7: an error of the list or of the update call is caught and logged: the run
\* ends normally, with no further call and no retry
C7_ApiErrorsSwallowed ==
    /\ calls # <<>> => pc \in {"list", "update", "done"}
    /\ Len(ListCalls) <= 1 /\ Len(UpdateCalls) <= 1
    /\ listRes.kind = "error" =>
          /\ pc = "done"
          /\ LastLog = "The API returned an error"
          /\ Len(calls) = 1
    /\ updateRes = "error" =>
          /\ pc = "done"
          /\ LastLog = "The API returned an error"
          /\ Len(calls) = 2

C7_Witness == updateRes = "error" /\ pc = "done"

\* C8: without a stored token, a failed code exchange rejects authorize and aborts
\* the run: no token written, no track or video prompt, no remote call
C8_ExchangeFailureAborts ==
    (tokenAtStart # "valid" /\ ExchangeFailed) =>
        /\ pc = "rejected"
        /\ tokenFile = tokenAtStart
        /\ ~InLog("Token stored")
        /\ ~Prompted("track")
        /\ ~Prompted("video")
        /\ calls = <<>>

C8_Witness == tokenAtStart = "absent" /\ ExchangeFailed /\ pc = "rejected"

====
